---- MODULE Spec2Model ----
(***************************************************************************)
(* Model of src/hash.py: a fixed-capacity hash table with open addressing, *)
(* double hashing (descending step) and Brent's variation.                 *)
(*                                                                         *)
(* A slot of self.table is modelled as a record                            *)
(*   [obj |-> BOOLEAN, key |-> Opt, value |-> Opt]                         *)
(* obj = FALSE is the list element None; obj = TRUE is a HashEntry object. *)
(* An attribute that is Python's None is the empty tuple <<>>, an          *)
(* attribute holding x is the one-element tuple <<x>>.                     *)
(***************************************************************************)
EXTENDS Integers, Sequences, FiniteSets, TLC

\* ---------------------------------------------------------------- bounds
\* Keys drawn by the operations: 0..MaxKey.
MaxKey == 7
\* Number of calls made on the table in one behaviour.
MaxOps == 3

\* The longer behaviours of SpecLong: keys 0..MaxLongKey, MaxLongOps calls.
MaxLongKey == 4
MaxLongOps == 7

\* Capacities a table is constructed with.
Capacities == {0, 1, 2, 3, 4, 5, 7}
Keys == 0..MaxKey
Values == {"a", "b"}

\* ------------------------------------------------------------- constants
\* The value insert, insert_brent, delete and get_position return on failure.
NOT_FOUND == -1

\* Python's None, as an attribute or a return value.
None == <<>>
Some(x) == <<x>>

\* Python's floored modulo a % n for n # 0 (the result has the sign of n).
PyMod(a, n) == IF n > 0 THEN a % n ELSE -((-a) % (-n))

\* ------------------------------------------------------------ HashEntry
\* The list element None (an empty table index).
NoEntry == [obj |-> FALSE, key |-> None, value |-> None]

HashEntry(key, value) == [obj |-> TRUE, key |-> Some(key), value |-> Some(value)]

\* A variant of HashEntry.delete that drops the object (the table index
\* becomes None again).
entry_delete_to_none(e) == NoEntry

\* A variant of HashEntry.delete that clears the value and keeps the key.
entry_delete_keeps_key(e) == [e EXCEPT !.value = None]

\* HashEntry.delete: the object stays, key and value become None.
entry_delete(e) == [e EXCEPT !.key = None, !.value = None]

\* ------------------------------------------------------------ HashTable
\* HashTable.__init__: [None] * size.
new_table(size) == [i \in 0..(size - 1) |-> NoEntry]

is_empty(t, index) == ~t[index].obj

\* A variant of is_free that forgets deleted entries: only None is free.
is_free_only_empty(t, index) == is_empty(t, index)

is_free(t, index) ==
    IF is_empty(t, index) THEN TRUE
    ELSE IF t[index].key = None THEN TRUE
    ELSE FALSE

set_key_value(t, index, key, value) ==
    IF is_empty(t, index)
    THEN [t EXCEPT ![index] = HashEntry(key, value)]
    ELSE [t EXCEPT ![index].key = Some(key), ![index].value = Some(value)]

hk(k, cap) == IF cap = 0 THEN 0 ELSE PyMod(k, cap)

\* A variant of hk2 without the special case for cap = 2: the step is 1.
hk2_steps_at_two(k, cap) == IF cap = 2 THEN 1 ELSE 1 + PyMod(k, cap - 2)

\* A variant of hk2 without the leading 1 +: the step can be 0.
hk2_no_offset(k, cap) == IF cap = 2 THEN 0 ELSE PyMod(k, cap - 2)

hk2(k, cap) == IF cap = 2 THEN 0 ELSE 1 + PyMod(k, cap - 2)

\* The divisors the loops of insert, insert_brent and get_position apply %
\* to: with cap = 0 the loop body never runs, hk2 divides by cap - 2 unless
\* cap = 2, and hk and the slot computation divide by cap.
loop_divisors(cap) ==
    IF cap <= 0 THEN {}
    ELSE {cap} \cup (IF cap = 2 THEN {} ELSE {cap - 2})

\* A variant of the slot computation with an ascending step.
pos_ascending(k, cap, i) == PyMod(hk(k, cap) + i * hk2(k, cap), cap)

\* The slot examined at attempt i: (hk(key) - i * hk2(key)) % m.
pos(k, cap, i) == PyMod(hk(k, cap) - i * hk2(k, cap), cap)

\* A variant of get_position's loop that gives up at the first free slot
\* (break in place of continue).
RECURSIVE get_position_stop_at_free(_, _, _, _)
get_position_stop_at_free(t, cap, k, i) ==
    IF i >= cap THEN NOT_FOUND
    ELSE LET hash == pos(k, cap, i) IN
         IF is_free(t, hash) THEN NOT_FOUND
         ELSE IF t[hash].key = Some(k) THEN hash
         ELSE get_position_stop_at_free(t, cap, k, i + 1)

\* get_position: the loop from attempt i on.
RECURSIVE get_position_from(_, _, _, _)
get_position_from(t, cap, k, i) ==
    IF i >= cap THEN NOT_FOUND
    ELSE LET hash == pos(k, cap, i) IN
         IF is_free(t, hash) THEN get_position_from(t, cap, k, i + 1)
         ELSE IF t[hash].key = Some(k) THEN hash
         ELSE get_position_from(t, cap, k, i + 1)

get_position(t, cap, k) == get_position_from(t, cap, k, 0)

\* A variant of insert's loop that overwrites the value of a key it finds
\* and returns its index, instead of returning -1.
RECURSIVE insert_overwrite(_, _, _, _, _)
insert_overwrite(t, cap, key, value, i) ==
    IF i >= cap THEN [table |-> t, result |-> NOT_FOUND, attempt |-> i]
    ELSE LET hash == pos(key, cap, i) IN
         IF is_free(t, hash) \/ t[hash].key = Some(key)
         THEN [table |-> set_key_value(t, hash, key, value),
               result |-> hash, attempt |-> i]
         ELSE insert_overwrite(t, cap, key, value, i + 1)

\* A variant of insert's loop with hash_end initialised to 0 instead of -1.
RECURSIVE insert_hash_end_zero(_, _, _, _, _)
insert_hash_end_zero(t, cap, key, value, i) ==
    IF i >= cap THEN [table |-> t, result |-> 0, attempt |-> i]
    ELSE LET hash == pos(key, cap, i) IN
         IF is_free(t, hash)
         THEN [table |-> set_key_value(t, hash, key, value),
               result |-> hash, attempt |-> i]
         ELSE IF t[hash].key = Some(key)
         THEN [table |-> t, result |-> NOT_FOUND, attempt |-> i]
         ELSE insert_hash_end_zero(t, cap, key, value, i + 1)

\* insert: the loop from attempt i on. The result is the table afterwards,
\* the returned index and the attempt number at which the loop ended.
RECURSIVE insert_from(_, _, _, _, _)
insert_from(t, cap, key, value, i) ==
    IF i >= cap THEN [table |-> t, result |-> NOT_FOUND, attempt |-> i]
    ELSE LET hash == pos(key, cap, i) IN
         IF is_free(t, hash)
         THEN [table |-> set_key_value(t, hash, key, value),
               result |-> hash, attempt |-> i]
         ELSE IF t[hash].key = Some(key)
         THEN [table |-> t, result |-> NOT_FOUND, attempt |-> i]
         ELSE insert_from(t, cap, key, value, i + 1)

insert(t, cap, key, value) == insert_from(t, cap, key, value, 0)

\* Variants of insert_brent's loop. which selects the slip:
\*   "no_free_check"     the occupant is moved to hash2 without is_free(hash2);
\*   "returns_hash"      after placing at hash1, hash_end is set to hash;
\*   "moves_by_new_key"  hash2 is computed with hk2 of the new key;
\*   "moves_by_hk"       hash2 is computed with hk in place of hk2;
\*   "moves_key_only"    the occupant is moved with the new value.
RECURSIVE insert_brent_slip(_, _, _, _, _, _)
insert_brent_slip(which, t, cap, key, value, i) ==
    IF i >= cap THEN [table |-> t, result |-> NOT_FOUND, attempt |-> i]
    ELSE LET hash == pos(key, cap, i) IN
         IF is_free(t, hash)
         THEN [table |-> set_key_value(t, hash, key, value),
               result |-> hash, attempt |-> i]
         ELSE IF t[hash].key = Some(key)
         THEN [table |-> t, result |-> NOT_FOUND, attempt |-> i]
         ELSE LET hash1 == PyMod(hash - hk2(key, cap), cap) IN
              IF is_free(t, hash1)
              THEN [table |-> set_key_value(t, hash1, key, value),
                    result |-> IF which = "returns_hash" THEN hash ELSE hash1,
                    attempt |-> i]
              ELSE LET existing == t[hash]
                       step == IF which = "moves_by_new_key" THEN hk2(key, cap)
                               ELSE IF which = "moves_by_hk"
                               THEN hk(existing.key[1], cap)
                               ELSE hk2(existing.key[1], cap)
                       hash2 == PyMod(hash - step, cap)
                       moved == IF which = "moves_key_only" THEN value
                                ELSE existing.value[1]
                   IN
                   IF which = "no_free_check" \/ is_free(t, hash2)
                   THEN [table |-> set_key_value(
                                     set_key_value(t, hash2, existing.key[1],
                                                   moved),
                                     hash, key, value),
                         result |-> hash, attempt |-> i]
                   ELSE insert_brent_slip(which, t, cap, key, value, i + 1)

insert_brent_no_free_check(t, cap, key, value, i) ==
    insert_brent_slip("no_free_check", t, cap, key, value, i)

insert_brent_returns_hash(t, cap, key, value, i) ==
    insert_brent_slip("returns_hash", t, cap, key, value, i)

insert_brent_moves_by_new_key(t, cap, key, value, i) ==
    insert_brent_slip("moves_by_new_key", t, cap, key, value, i)

insert_brent_moves_by_hk(t, cap, key, value, i) ==
    insert_brent_slip("moves_by_hk", t, cap, key, value, i)

insert_brent_moves_key_only(t, cap, key, value, i) ==
    insert_brent_slip("moves_key_only", t, cap, key, value, i)

\* insert_brent: the loop from attempt i on.
RECURSIVE insert_brent_from(_, _, _, _, _)
insert_brent_from(t, cap, key, value, i) ==
    IF i >= cap THEN [table |-> t, result |-> NOT_FOUND, attempt |-> i]
    ELSE LET hash == pos(key, cap, i) IN
         IF is_free(t, hash)
         THEN [table |-> set_key_value(t, hash, key, value),
               result |-> hash, attempt |-> i]
         ELSE IF t[hash].key = Some(key)
         THEN [table |-> t, result |-> NOT_FOUND, attempt |-> i]
         ELSE LET hash1 == PyMod(hash - hk2(key, cap), cap) IN
              IF is_free(t, hash1)
              THEN [table |-> set_key_value(t, hash1, key, value),
                    result |-> hash1, attempt |-> i]
              ELSE LET existing == t[hash]
                       hash2 == PyMod(hash - hk2(existing.key[1], cap), cap)
                   IN
                   IF is_free(t, hash2)
                   THEN [table |-> set_key_value(
                                     set_key_value(t, hash2, existing.key[1],
                                                   existing.value[1]),
                                     hash, key, value),
                         result |-> hash, attempt |-> i]
                   ELSE insert_brent_from(t, cap, key, value, i + 1)

insert_brent(t, cap, key, value) == insert_brent_from(t, cap, key, value, 0)

\* retrieve: the stored value, or None.
retrieve(t, cap, key) ==
    LET hash == get_position(t, cap, key) IN
    IF hash = NOT_FOUND THEN None ELSE t[hash].value

\* A variant of delete without the test for -1: self.table[-1] is the last
\* slot, whose entry (when it is one) is cleared.
delete_unchecked(t, cap, key) ==
    LET hash == get_position(t, cap, key)
        index == IF hash = NOT_FOUND THEN cap - 1 ELSE hash
    IN
    IF index \in DOMAIN t /\ t[index].obj
    THEN [table |-> [t EXCEPT ![index] = entry_delete(t[index])], result |-> hash]
    ELSE [table |-> t, result |-> hash]

\* delete: the table afterwards and the returned index.
delete(t, cap, key) ==
    LET hash == get_position(t, cap, key) IN
    IF hash = NOT_FOUND THEN [table |-> t, result |-> NOT_FOUND]
    ELSE [table |-> [t EXCEPT ![hash] = entry_delete(t[hash])], result |-> hash]

\* ---------------------------------------------------------------- state
VARIABLES
    m,        \* self._m
    table,    \* self.table
    ops       \* number of calls made so far

vars == <<m, table, ops>>

Init ==
    /\ m \in Capacities
    /\ table = new_table(m)
    /\ ops = 0

Insert(k, v) ==
    /\ ops < MaxOps
    /\ table' = insert(table, m, k, v).table
    /\ ops' = ops + 1
    /\ UNCHANGED m

InsertBrent(k, v) ==
    /\ ops < MaxOps
    /\ table' = insert_brent(table, m, k, v).table
    /\ ops' = ops + 1
    /\ UNCHANGED m

Delete(k) ==
    /\ ops < MaxOps
    /\ table' = delete(table, m, k).table
    /\ ops' = ops + 1
    /\ UNCHANGED m

\* retrieve changes nothing of the table; what it returns is retrieve(...).
Retrieve(k) ==
    /\ ops < MaxOps
    /\ retrieve(table, m, k) \in {None} \cup {Some(v) : v \in Values}
    /\ ops' = ops + 1
    /\ UNCHANGED <<m, table>>

DoInsert == \E k \in Keys, v \in Values : Insert(k, v)
DoInsertBrent == \E k \in Keys, v \in Values : InsertBrent(k, v)
DoDelete == \E k \in Keys : Delete(k)
DoRetrieve == \E k \in Keys : Retrieve(k)

Next == DoInsert \/ DoInsertBrent \/ DoDelete \/ DoRetrieve

Spec == Init /\ [][Next]_vars

\* Plain insert calls only (no delete, no insert_brent).
NextInsertOnly == DoInsert \/ DoRetrieve
SpecInsertOnly == Init /\ [][NextInsertOnly]_vars

\* insert_brent calls only (no delete, no plain insert).
NextBrentOnly == DoInsertBrent \/ DoRetrieve
SpecBrentOnly == Init /\ [][NextBrentOnly]_vars

\* insert and delete calls only (no insert_brent).
NextPlain == DoInsert \/ DoDelete \/ DoRetrieve
SpecPlain == Init /\ [][NextPlain]_vars

\* Calls of insert, insert_brent and retrieve only: no entry is ever deleted.
NextNoDelete == DoInsert \/ DoInsertBrent \/ DoRetrieve

SpecNoDelete == Init /\ [][NextNoDelete]_vars

\* Longer behaviours on one small table: up to MaxLongOps calls of insert,
\* insert_brent and delete with keys 0..MaxLongKey.
LongCapacities == {4}
LongKeys == 0..MaxLongKey

InitLong ==
    /\ m \in LongCapacities
    /\ table = new_table(m)
    /\ ops = 0

LongInsert(k, v) ==
    /\ ops < MaxLongOps
    /\ table' = insert(table, m, k, v).table
    /\ ops' = ops + 1
    /\ UNCHANGED m

LongInsertBrent(k, v) ==
    /\ ops < MaxLongOps
    /\ table' = insert_brent(table, m, k, v).table
    /\ ops' = ops + 1
    /\ UNCHANGED m

LongDelete(k) ==
    /\ ops < MaxLongOps
    /\ table' = delete(table, m, k).table
    /\ ops' = ops + 1
    /\ UNCHANGED m

NextLong ==
    \/ \E k \in LongKeys, v \in Values : LongInsert(k, v)
    \/ \E k \in LongKeys, v \in Values : LongInsertBrent(k, v)
    \/ \E k \in LongKeys : LongDelete(k)

SpecLong == InitLong /\ [][NextLong]_vars

\* ------------------------------------------------------------ vocabulary
Slots == 0..(m - 1)

\* Slot i is Occupied / a Tombstone / Empty.
Occupied(t, i) == ~is_free(t, i)
Tombstone(t, i) == t[i].obj /\ t[i].key = None
Empty(t, i) == ~t[i].obj

\* Slot i is Occupied and holds key k.
Holds(t, i, k) == Occupied(t, i) /\ t[i].key = Some(k)

\* Key k is held by some Occupied slot.
Present(t, k) == \E i \in DOMAIN t : Holds(t, i, k)

\* The attempt numbers at which key k's probe sequence examines slot i.
AttemptsAt(k, i) == {j \in 0..(m - 1) : pos(k, m, j) = i}

\* Every key an Occupied slot of t holds.
KeysOf(t) == {k \in Keys : Present(t, k)}

Full(t) == \A i \in DOMAIN t : Occupied(t, i)

\* The least attempt number at which k's probe sequence examines a slot
\* holding k (k must be present at a slot of its sequence).
FirstAttempt(t, k) ==
    CHOOSE j \in 0..(m - 1) :
        /\ Holds(t, pos(k, m, j), k)
        /\ \A j2 \in 0..(j - 1) : ~Holds(t, pos(k, m, j2), k)

\* --------------------------------------------------------------- claims

\* C1: in every reachable state no two Occupied slots hold the same key.
\* (Violated: insert stops at a free slot before it reaches the key, and
\* insert_brent relocates before it reaches the key.)
C1_NoDuplicateKeys ==
    \A i, j \in Slots :
        (i # j /\ Occupied(table, i) /\ Occupied(table, j))
            => table[i].key # table[j].key

\* C2: round trip. Whenever insert(k, v) succeeds at index i, retrieve(k)
\* then returns v, a following delete(k) returns i, and retrieve(k) after
\* that delete returns None (not found). (Violated in its last part when the
\* insert stored a second copy of k in front of an older one.)
C2_RoundTrip ==
    \A k \in Keys, v \in Values :
        LET r == insert(table, m, k, v)
            d == delete(r.table, m, k)
        IN r.result # NOT_FOUND =>
               /\ retrieve(r.table, m, k) = Some(v)
               /\ d.result = r.result
               /\ retrieve(d.table, m, k) = None

\* C3: after plain insert calls only, insert(k, v) of a key that is present
\* returns -1 and leaves every slot unchanged.
C3_InsertDuplicateRejected ==
    \A k \in Keys, v \in Values :
        Present(table, k) =>
            LET r == insert(table, m, k, v) IN
            r.result = NOT_FOUND /\ r.table = table

\* C3 witness: a present key sits behind a collision (not at its home slot),
\* holds the other value, and inserting it again is rejected.
C3_Witness ==
    \E k \in Keys, v \in Values :
        /\ Present(table, k)
        /\ FirstAttempt(table, k) > 0
        /\ retrieve(table, m, k) # Some(v)
        /\ insert(table, m, k, v).result = NOT_FOUND

\* C4: after insert_brent calls only, insert_brent(k, v) of a key that is
\* present returns -1 and leaves every slot unchanged. (Violated: when the
\* key sits at its next probe slot and the occupant of the slot before it can
\* move, insert_brent relocates the occupant and stores the key a second time.)
C4_BrentDuplicateRejected ==
    \A k \in Keys, v \in Values :
        Present(table, k) =>
            LET r == insert_brent(table, m, k, v) IN
            r.result = NOT_FOUND /\ r.table = table

\* C5: after insert and delete calls, insert(k, v) of a key held by an
\* Occupied slot returns -1 and does not change the table, also when a
\* Tombstone lies earlier in k's probe sequence. (Violated: insert writes
\* into the Tombstone without looking further.)
C5_InsertPresentKeyRejected ==
    \A k \in Keys, v \in Values :
        Present(table, k) =>
            LET r == insert(table, m, k, v) IN
            r.result = NOT_FOUND /\ r.table = table

\* C6: when every slot is Occupied, insert and insert_brent return -1 for
\* every key and leave every slot unchanged.
C6_FullTableRejects ==
    Full(table) =>
        \A k \in Keys, v \in Values :
            LET a == insert(table, m, k, v)
                b == insert_brent(table, m, k, v)
            IN /\ a.result = NOT_FOUND /\ a.table = table
               /\ b.result = NOT_FOUND /\ b.table = table

\* C6 witness: a full table of at least three slots and a key it does not hold.
C6_Witness ==
    /\ m >= 3
    /\ Full(table)
    /\ \E k \in Keys :
           /\ ~Present(table, k)
           /\ insert(table, m, k, "a").result = NOT_FOUND
           /\ insert_brent(table, m, k, "a").result = NOT_FOUND

\* C7: whenever insert or insert_brent returns something other than -1, it
\* is an index in 0..m-1 and the slot there is Occupied with exactly the
\* key and value passed.
C7_SuccessIndexHoldsEntry ==
    \A k \in Keys, v \in Values :
        LET a == insert(table, m, k, v)
            b == insert_brent(table, m, k, v)
        IN /\ a.result # NOT_FOUND =>
                  /\ a.result \in 0..(m - 1)
                  /\ a.table[a.result] = HashEntry(k, v)
           /\ b.result # NOT_FOUND =>
                  /\ b.result \in 0..(m - 1)
                  /\ b.table[b.result] = HashEntry(k, v)

\* C7 witness: insert_brent succeeds at a slot other than the one insert
\* succeeds at (placement at the next probe slot, or a relocation).
C7_Witness ==
    \E k \in Keys, v \in Values :
        LET a == insert(table, m, k, v)
            b == insert_brent(table, m, k, v)
        IN /\ a.result # NOT_FOUND
           /\ b.result # NOT_FOUND
           /\ a.result # b.result
           /\ \E i \in Slots : Occupied(table, i) /\ b.table[i] # table[i]

\* C8: every Occupied slot holding k is a slot of k's probe sequence, and
\* get_position(k) is the first slot in k's probe order that holds k
\* (never -1), whatever Tombstone or Empty slots come earlier.
C8_PresentKeyFound ==
    \A i \in Slots :
        Occupied(table, i) =>
            LET k == table[i].key[1] IN
            /\ AttemptsAt(k, i) # {}
            /\ get_position(table, m, k) # NOT_FOUND
            /\ get_position(table, m, k) = pos(k, m, FirstAttempt(table, k))

\* C8 witness: a key is found although a Tombstone comes earlier in its
\* probe sequence.
C8_Witness ==
    \E k \in Keys :
        /\ Present(table, k)
        /\ get_position(table, m, k) # NOT_FOUND
        /\ \E j \in 0..(m - 1) :
               /\ j < FirstAttempt(table, k)
               /\ Tombstone(table, pos(k, m, j))

\* C9: delete(k) of a key no Occupied slot holds returns -1 and leaves every
\* slot unchanged (so every key retrieves what it did before: retrieve reads
\* nothing but the slots).
C9_DeleteAbsentKey ==
    \A k \in Keys :
        ~Present(table, k) =>
            LET d == delete(table, m, k) IN
            d.result = NOT_FOUND /\ d.table = table

\* C9 witness: the table holds keys, its last slot among them, the key
\* deleted was there before (its home slot is a Tombstone), and delete
\* returns -1.
C9_Witness ==
    \E k \in Keys :
        /\ ~Present(table, k)
        /\ m >= 3
        /\ Tombstone(table, pos(k, m, 0))
        /\ Occupied(table, m - 1)
        /\ delete(table, m, k).result = NOT_FOUND

\* C10: for a present key d and an absent key k # d whose probe sequence
\* reaches d's slot, insert(k, v) after delete(d) places k, at an attempt
\* number no greater than the one at which insert(k, v) places k without the
\* delete (unless the insert without the delete fails).
C10_TombstoneReuse ==
    LET present == KeysOf(table) IN
    \A d \in present :
        LET slot == get_position(table, m, d)
            deleted == delete(table, m, d).table
        IN \A k \in Keys \ present :
               AttemptsAt(k, slot) # {} =>
                   \A v \in Values :
                       LET a == insert(deleted, m, k, v)
                           b == insert(table, m, k, v)
                       IN /\ a.result # NOT_FOUND
                          /\ (b.result = NOT_FOUND \/ a.attempt <= b.attempt)

\* C10 witness: the delete makes the difference, either k is placed
\* strictly earlier or only the delete lets it be placed.
C10_Witness ==
    \E d \in Keys, k \in Keys, v \in Values :
        /\ d # k
        /\ Present(table, d)
        /\ ~Present(table, k)
        /\ AttemptsAt(k, get_position(table, m, d)) # {}
        /\ LET a == insert(delete(table, m, d).table, m, k, v)
               b == insert(table, m, k, v)
           IN /\ a.result # NOT_FOUND
              /\ b.result # NOT_FOUND
              /\ a.attempt < b.attempt

\* C11 (as claimed): with m = 7, whenever insert_brent(k, v) finds k's home
\* slot Occupied by another key e whose own next probe slot
\* (home - hk2(e)) % 7 is free, it moves e there, stores k in the home slot
\* and returns it, and both keys are retrievable. (Violated: when k's own
\* next probe slot is free, k is stored there and e stays.)
C11_BrentRelocationAsClaimed ==
    m = 7 =>
        \A k \in Keys, v \in Values :
            LET home == pos(k, m, 0) IN
            (/\ Occupied(table, home)
             /\ table[home].key # Some(k)
             /\ is_free(table, PyMod(home - hk2(table[home].key[1], m), m)))
            => LET e == table[home]
                   alt2 == PyMod(home - hk2(e.key[1], m), m)
                   r == insert_brent(table, m, k, v)
               IN /\ r.result = home
                  /\ r.table[home] = HashEntry(k, v)
                  /\ r.table[alt2] = e
                  /\ retrieve(r.table, m, k) = Some(v)
                  /\ retrieve(r.table, m, e.key[1]) # None

\* C11 (amended): the same, provided k's own next probe slot
\* (home - hk2(k)) % 7 is not free.
C11_BrentRelocation ==
    m = 7 =>
        \A k \in Keys, v \in Values :
            LET home == pos(k, m, 0) IN
            (/\ Occupied(table, home)
             /\ table[home].key # Some(k)
             /\ is_free(table, PyMod(home - hk2(table[home].key[1], m), m))
             /\ ~is_free(table, PyMod(home - hk2(k, m), m)))
            => LET e == table[home]
                   alt2 == PyMod(home - hk2(e.key[1], m), m)
                   r == insert_brent(table, m, k, v)
               IN /\ r.result = home
                  /\ r.table[home] = HashEntry(k, v)
                  /\ r.table[alt2] = e
                  /\ retrieve(r.table, m, k) = Some(v)
                  /\ retrieve(r.table, m, e.key[1]) # None

\* C11 witness: m = 7, key 0 in its home slot 0, slot 4 (the next probe slot
\* of key 7) Occupied, slot 6 (the next probe slot of key 0) free, and
\* insert_brent(7, v) returns 0 after moving key 0 to slot 6.
C11_Witness ==
    /\ m = 7
    /\ Holds(table, 0, 0)
    /\ Occupied(table, 4)
    /\ is_free(table, 6)
    /\ LET r == insert_brent(table, m, 7, "b") IN
       /\ r.result = 0
       /\ Holds(r.table, 6, 0)
       /\ Holds(r.table, 0, 7)

\* C12: a table of capacity 0 is unusable, not a crash: insert and
\* insert_brent return -1, retrieve returns None, delete returns -1, no
\* call divides by zero and the empty slot sequence never changes.
C12_CapacityZeroUnusable ==
    m = 0 =>
        /\ table = <<>>
        /\ 0 \notin loop_divisors(m)
        /\ \A k \in Keys :
               /\ retrieve(table, m, k) = None
               /\ delete(table, m, k) = [table |-> <<>>, result |-> NOT_FOUND]
               /\ \A v \in Values :
                      LET a == insert(table, m, k, v)
                          b == insert_brent(table, m, k, v)
                      IN /\ a.result = NOT_FOUND /\ a.table = <<>>
                         /\ b.result = NOT_FOUND /\ b.table = <<>>

\* C12 witness: capacity 0 after MaxOps calls.
C12_Witness ==
    /\ m = 0
    /\ ops = MaxOps
    /\ table = new_table(0)
    /\ insert(table, m, 0, "a").result = NOT_FOUND

\* The state of a slot: the list element None is Empty, an entry with key
\* None a Tombstone, any other entry Occupied.
Kind(e) ==
    IF ~e.obj THEN "Empty"
    ELSE IF e.key = None THEN "Tombstone"
    ELSE "Occupied"

\* Slot i goes from a free state to Occupied between tables t and u.
Filled(t, u, i) ==
    Kind(t[i]) \in {"Empty", "Tombstone"} /\ Kind(u[i]) = "Occupied"

\* Slot i is the collision slot of a relocation between tables t and u that
\* returned index res: its former entry now sits one step of its own key
\* further, in a slot that was free.
RelocatedFrom(t, u, res, i) ==
    /\ Kind(t[i]) = "Occupied" /\ Kind(u[i]) = "Occupied"
    /\ u[i] # t[i]
    /\ res = i
    /\ LET alt2 == PyMod(i - hk2(t[i].key[1], m), m) IN
       is_free(t, alt2) /\ u[alt2] = t[i]

\* C13: slot lifecycle. Every call changes a slot only Empty -> Occupied,
\* Tombstone -> Occupied, Occupied -> Tombstone (delete only) or Occupied ->
\* Occupied with another entry (the collision slot of a relocation by
\* insert_brent only); no slot ever becomes Empty.
C13_SlotLifecycle ==
    \A k \in Keys :
        /\ LET d == delete(table, m, k).table IN
           \A i \in Slots :
               \/ d[i] = table[i]
               \/ Kind(table[i]) = "Occupied" /\ Kind(d[i]) = "Tombstone"
        /\ \A v \in Values :
               LET a == insert(table, m, k, v).table
                   b == insert_brent(table, m, k, v)
               IN \A i \in Slots :
                      /\ a[i] = table[i] \/ Filled(table, a, i)
                      /\ \/ b.table[i] = table[i]
                         \/ Filled(table, b.table, i)
                         \/ RelocatedFrom(table, b.table, b.result, i)

\* C13 witness: a Tombstone that insert makes Occupied again, beside an
\* Occupied slot that delete makes a Tombstone.
C13_Witness ==
    \E i, j \in Slots :
        /\ Tombstone(table, i)
        /\ Occupied(table, j)
        /\ \E k \in Keys : Occupied(insert(table, m, k, "a").table, i)
        /\ \E k \in Keys : Tombstone(delete(table, m, k).table, j)

\* The probe order the claims state: (k mod m - i * h2(k, m)) mod m.
Descending(k, i) == PyMod(PyMod(k, m) - i * hk2(k, m), m)

\* C14: plain insert placement. When the first free slot in the order
\* Descending(k, 0), Descending(k, 1), ... comes before any Occupied slot
\* holding k, insert(k, v) writes (k, v) into exactly that slot, returns its
\* index and leaves every other slot unchanged.
C14_InsertFirstFreeSlot ==
    m > 0 =>
        \A k \in Keys :
            LET free == {i \in 0..(m - 1) : is_free(table, Descending(k, i))}
                held == {i \in 0..(m - 1) : Holds(table, Descending(k, i), k)}
            IN (free # {} /\ \A h \in held : \E f \in free : f < h)
               => LET first == CHOOSE f \in free : \A g \in free : f <= g
                      slot == Descending(k, first)
                  IN \A v \in Values :
                         LET r == insert(table, m, k, v) IN
                         /\ r.result = slot
                         /\ r.attempt = first
                         /\ r.table = [table EXCEPT ![slot] = HashEntry(k, v)]

\* C14 witness: insert passes an Occupied slot of another key and then
\* writes into a Tombstone.
C14_Witness ==
    \E k \in Keys :
        LET r == insert(table, m, k, "a") IN
        /\ r.result # NOT_FOUND
        /\ r.attempt >= 1
        /\ Tombstone(table, r.result)
        /\ \A i \in 0..(r.attempt - 1) : Occupied(table, Descending(k, i))

\* The slots in which tables t and u differ.
Changed(t, u) == {i \in DOMAIN t : u[i] # t[i]}

\* C15: one insert_brent call changes at most two slots. When it relocates
\* (it changes a slot that was Occupied), exactly one entry moves, from the
\* collision slot s to (s - hk2(its own key)) % m, key and value intact, the
\* new entry takes slot s and every other slot is unchanged; without a
\* relocation only the returned slot changes; a failed call changes nothing.
C15_BrentMovesOneEntryOneStep ==
    \A k \in Keys, v \in Values :
        LET b == insert_brent(table, m, k, v)
            changed == Changed(table, b.table)
        IN /\ Cardinality(changed) <= 2
           /\ b.result = NOT_FOUND => changed = {}
           /\ b.result # NOT_FOUND =>
                  IF \E i \in changed : Occupied(table, i)
                  THEN LET s == b.result
                           e == table[s]
                           to == PyMod(s - hk2(e.key[1], m), m)
                       IN /\ Occupied(table, s)
                          /\ is_free(table, to)
                          /\ changed = {s, to}
                          /\ b.table[to] = e
                          /\ b.table[s] = HashEntry(k, v)
                  ELSE changed = {b.result}

\* C15 witness: insert_brent relocates an entry whose value differs from the
\* one being inserted.
C15_Witness ==
    \E k \in Keys, v \in Values :
        LET b == insert_brent(table, m, k, v) IN
        /\ b.result # NOT_FOUND
        /\ Occupied(table, b.result)
        /\ table[b.result].value # Some(v)
        /\ Cardinality(Changed(table, b.table)) = 2

\* C16: insert_brent(k, v) preserves the other keys: whether it succeeds or
\* fails, every key other than k retrieves what it retrieved before the call.
\* (Violated when the relocated entry is the later of two copies of its key
\* and the move wraps it to the front of its probe sequence.)
C16_BrentPreservesOtherKeys ==
    \A k \in Keys, v \in Values :
        LET b == insert_brent(table, m, k, v).table IN
        \A k2 \in Keys \ {k} : retrieve(b, m, k2) = retrieve(table, m, k2)

\* The least attempt number at which key k's probe sequence examines slot s.
SlotAttempt(k, s) ==
    CHOOSE j \in AttemptsAt(k, s) : \A j2 \in AttemptsAt(k, s) : j <= j2

\* insert_brent's result b on table t came about by a relocation.
Relocates(t, b) == b.result # NOT_FOUND /\ Cardinality(Changed(t, b.table)) = 2

\* C17 (as claimed): for a present key d and an absent key k # d whose probe
\* sequence reaches d's slot, the attempt number of the slot in which
\* insert_brent(k, v) places k after delete(d) is no greater than that of the
\* slot in which it places k without the delete. (Violated: without the
\* delete k takes the collision slot by a relocation, after the delete k's
\* next probe slot is free and k is stored there.)
C17_BrentTombstoneReuseAsClaimed ==
    LET present == KeysOf(table) IN
    \A d \in present :
        LET slot == get_position(table, m, d)
            deleted == delete(table, m, d).table
        IN \A k \in Keys \ present :
               AttemptsAt(k, slot) # {} =>
                   \A v \in Values :
                       LET a == insert_brent(deleted, m, k, v)
                           b == insert_brent(table, m, k, v)
                       IN b.result # NOT_FOUND =>
                              /\ a.result # NOT_FOUND
                              /\ SlotAttempt(k, a.result)
                                     <= SlotAttempt(k, b.result)

\* C17: for a present key d and an absent key k # d whose probe sequence
\* reaches d's slot, insert_brent(k, v) after delete(d) places k, and when
\* insert_brent(k, v) without the delete places k too, the call after the
\* delete ends at a loop attempt no greater, in a slot whose attempt number
\* is no greater than without the delete, or at most one greater when the
\* call without the delete relocates an entry.
C17_BrentTombstoneReuse ==
    LET present == KeysOf(table) IN
    \A k \in Keys \ present, v \in Values :
        LET b == insert_brent(table, m, k, v)
            limit == IF b.result = NOT_FOUND THEN m
                     ELSE SlotAttempt(k, b.result)
                          + (IF Relocates(table, b) THEN 1 ELSE 0)
        IN \A d \in present :
               AttemptsAt(k, get_position(table, m, d)) # {} =>
                   LET a == insert_brent(delete(table, m, d).table, m, k, v)
                   IN /\ a.result # NOT_FOUND
                      /\ b.result # NOT_FOUND =>
                             /\ a.attempt <= b.attempt
                             /\ SlotAttempt(k, a.result) <= limit

\* C17 witness: without the delete k takes its collision slot by a
\* relocation; after the delete k is stored one attempt later.
C17_Witness ==
    \E d \in Keys, k \in Keys, v \in Values :
        /\ d # k
        /\ Present(table, d)
        /\ ~Present(table, k)
        /\ AttemptsAt(k, get_position(table, m, d)) # {}
        /\ LET a == insert_brent(delete(table, m, d).table, m, k, v)
               b == insert_brent(table, m, k, v)
           IN /\ Relocates(table, b)
              /\ a.result # NOT_FOUND
              /\ SlotAttempt(k, a.result) = SlotAttempt(k, b.result) + 1

\* The prime capacities above 2 among the capacities tables are built with.
PrimeCapacities ==
    {c \in Capacities : c > 2 /\ \A q \in 2..(c - 1) : c % q # 0}

\* The slots key k's probe sequence examines.
Probed(k) == {pos(k, m, i) : i \in 0..(m - 1)}

\* C18: with a prime capacity m > 2 the probe sequence pos(k, 0..m-1) of every
\* key visits every slot exactly once, and insert(k, v) of a key held by no
\* Occupied slot succeeds whenever a slot is free: it returns a slot that was
\* free (so distinct from every index in use) and that then holds k.
C18_PrimeCapacityInsertSucceeds ==
    m \in PrimeCapacities =>
        \A k \in Keys :
            /\ Probed(k) = Slots
            /\ \A i, j \in 0..(m - 1) : pos(k, m, i) = pos(k, m, j) => i = j
            /\ (~Present(table, k) /\ \E s \in Slots : is_free(table, s)) =>
                   \A v \in Values :
                       LET a == insert(table, m, k, v) IN
                       /\ a.result \in Slots
                       /\ is_free(table, a.result)
                       /\ Holds(a.table, a.result, k)

\* C18 witness: a prime capacity of at least 5; the home slot and the next
\* slot of an absent key are Occupied and insert places it further along.
C18_Witness ==
    /\ m \in PrimeCapacities
    /\ m >= 5
    /\ \E k \in Keys, v \in Values :
           LET a == insert(table, m, k, v) IN
           /\ ~Present(table, k)
           /\ Occupied(table, pos(k, m, 0))
           /\ Occupied(table, pos(k, m, 1))
           /\ a.result # NOT_FOUND
           /\ a.attempt >= 2

\* C19: unbroken probe chains. When no entry has been deleted, every slot
\* that the probe sequence of a key k examines before the first slot holding
\* k is Occupied; the placements and the relocation of insert_brent keep it so.
C19_UnbrokenProbeChains ==
    /\ \A k \in KeysOf(table) :
           \A i \in 0..(FirstAttempt(table, k) - 1) :
               Occupied(table, pos(k, m, i))
    /\ \A k \in Keys, v \in Values :
           LET b == insert_brent(table, m, k, v).table IN
           \A k2 \in KeysOf(b) :
               \E j \in 0..(m - 1) :
                   /\ Holds(b, pos(k2, m, j), k2)
                   /\ \A i \in 0..(j - 1) : Occupied(b, pos(k2, m, i))

\* C19 witness: insert_brent has relocated an entry, which now sits at
\* attempt 1 or later of its own probe sequence behind Occupied slots.
C19_Witness ==
    \E k \in Keys, v \in Values :
        LET b == insert_brent(table, m, k, v) IN
        /\ Relocates(table, b)
        /\ LET e == table[b.result].key[1] IN
           /\ \E j \in 1..(m - 1) :
                  /\ Holds(b.table, pos(e, m, j), e)
                  /\ \A i \in 0..(j - 1) :
                         /\ Occupied(b.table, pos(e, m, i))
                         /\ ~Holds(b.table, pos(e, m, i), e)

\* C20: with m = 2 the step hash is 0, every attempt of every key examines
\* the home slot k % 2, and get_position returns that slot or NOT_FOUND; when
\* the home slot is Occupied by another key, insert(k, v) and
\* insert_brent(k, v) return NOT_FOUND and leave the table unchanged, even
\* if the other slot is free.
C20_DegenerateCapacityTwo ==
    m = 2 =>
        \A k \in Keys :
            LET home == k % 2 IN
            /\ hk2(k, m) = 0
            /\ \A i \in 0..(m - 1) : pos(k, m, i) = home
            /\ get_position(table, m, k) \in {NOT_FOUND, home}
            /\ \A v \in Values :
                   LET a == insert(table, m, k, v)
                       b == insert_brent(table, m, k, v)
                   IN /\ \A i \in Slots \ {home} :
                             a.table[i] = table[i] /\ b.table[i] = table[i]
                      /\ a.result \in {NOT_FOUND, home}
                      /\ b.result \in {NOT_FOUND, home}
                      /\ (Occupied(table, home) /\ ~Holds(table, home, k)) =>
                             /\ a.result = NOT_FOUND /\ a.table = table
                             /\ b.result = NOT_FOUND /\ b.table = table

\* C20 witness: capacity 2, the home slot of k is Occupied by another key,
\* the other slot is free, and both inserts of k are rejected.
C20_Witness ==
    /\ m = 2
    /\ \E k \in Keys, v \in Values :
           LET home == k % 2 IN
           /\ Occupied(table, home)
           /\ ~Holds(table, home, k)
           /\ is_free(table, 1 - home)
           /\ insert(table, m, k, v).result = NOT_FOUND
           /\ insert_brent(table, m, k, v).result = NOT_FOUND

====
